---------------------------- MODULE Spec2Model ----------------------------
(***************************************************************************)
(* Model of cloudflare-worker/worker.js: the Google Calendar OAuth worker  *)
(* of the DAEMON dashboard.  One request is served per step by the         *)
(* worker's fetch entry point, which authenticates, routes and runs the    *)
(* handler against the OAUTH_TOKENS key-value namespace.                   *)
(*                                                                         *)
(* Representation.  Header values and the 'error' query parameter are      *)
(* sequences of one-character strings, so that startsWith, slice and       *)
(* escapeHtml are computed character by character.  KV keys, the 'state'   *)
(* and 'code' parameters and Google's tokens are strings.  A header or a   *)
(* query parameter that is not sent is absent from the DOMAIN of the       *)
(* request's headers / params function (JavaScript's null from get()).     *)
(* Time is Date.now() in milliseconds.                                     *)
(***************************************************************************)
EXTENDS Integers, Sequences, FiniteSets, TLC

VARIABLES
    kv,       \* env.OAUTH_TOKENS: key -> [value] or [value, expiration]
    now,      \* Date.now(), milliseconds
    ticks,    \* how many times the clock has advanced (bounds the run)
    issued,   \* the UUIDs crypto.randomUUID() has returned so far
    req,      \* the request the worker has just served
    resp,     \* the response it got
    out,      \* the outbound fetches it made, in order
    log,      \* the KV operations it made, in order
              \* (req .. log are blank while the worker is idle)
    flight,   \* the invocations of handlers that run step by step, in order of arrival
    loggedOut \* a /logout has completed, leaving no token behind, and no /callback
              \* has stored a token since

vars == <<kv, now, ticks, issued, req, resp, out, log, flight, loggedOut>>

---------------------------------------------------------------------------
(* Bounds of the model *)

\* number of clock advances in a run
MaxTicks == 2

\* number of /auth requests in a run (each draws one fresh UUID)
MaxAuth == 2

\* number of requests of a run whose handlers run step by step
MaxFlight == 3

---------------------------------------------------------------------------
(* Program constants *)

\* worker.js:103  expirationTtl: 300 (seconds)
StateTtlSec == 300

\* worker.js:256  tokenData.expires_at > Date.now() + 300000
CacheSlackMs == 300000

\* worker.js:47  authHeader.slice(7)
BearerLen == 7

ALLOWED_ORIGINS ==
    << "https://sysopbeta.be", "https://b3.wtf", "https://berthuygens.github.io",
       "http://localhost:8080", "http://127.0.0.1:8080" >>

GOOGLE_AUTH_URL == "https://accounts.google.com/o/oauth2/v2/auth"

GOOGLE_TOKEN_URL == "https://oauth2.googleapis.com/token"

OTOBO_BASE_URL == "https://ticketing.inbo.be/otobo/nph-genericinterface.pl/Webservice/DaemonAPI"

allowedFeeds == { "https://ccb.belgium.be/advisories.xml" }

publicPaths == { "/auth", "/callback" }

---------------------------------------------------------------------------
(* JavaScript helpers *)

\* the value JavaScript's null / undefined is modelled by, where a string is expected
Null == "<null>"

\* s.startsWith(p) on character sequences
startsWith(s, p) == Len(s) >= Len(p) /\ SubSeq(s, 1, Len(p)) = p

\* s.slice(n) on character sequences
slice(s, n) == IF n >= Len(s) THEN << >> ELSE SubSeq(s, n + 1, Len(s))

\* ALLOWED_ORIGINS.includes(origin)
includes(list, x) == \E i \in 1..Len(list) : list[i] = x

\* !x for a string-or-null value: null, undefined and '' are falsy
Falsy(x) == x = Null \/ x = ""

\* headers.get(name) / searchParams.get(name) for string values
Get(f, name) == IF name \in DOMAIN f THEN f[name] ELSE Null

\* Math.floor(a / b) for b > 0
floorDiv(a, b) == a \div b


\* a || b for string-or-null values
Or(a, b) == IF Falsy(a) THEN b ELSE a

\* JSON.stringify({access_token, expires_at}): the serialized text, as its tokens
JSONstringify(tokenData) ==
    << "{", "access_token", tokenData.access_token, "expires_at", tokenData.expires_at, "}" >>

\* JSON.parse of such a text
JSONparse(text) == [ access_token |-> text[3], expires_at |-> text[5] ]

\* one character of escapeHtml
escapeChar(c) ==
    CASE c = "&"  -> << "&", "a", "m", "p", ";" >>
      [] c = "<"  -> << "&", "l", "t", ";" >>
      [] c = ">"  -> << "&", "g", "t", ";" >>
      [] c = "\"" -> << "&", "q", "u", "o", "t", ";" >>
      [] c = "'"  -> << "&", "#", "0", "3", "9", ";" >>
      [] OTHER    -> << c >>

RECURSIVE escapeHtml(_)
escapeHtml(str) ==
    IF str = << >> THEN << >> ELSE escapeChar(Head(str)) \o escapeHtml(Tail(str))

---------------------------------------------------------------------------
(* The KV namespace env.OAUTH_TOKENS *)

\* whether key k holds a value at time t (an entry past its expiration is gone)
KVhas(store, t, k) ==
    /\ k \in DOMAIN store
    /\ "expiration" \in DOMAIN store[k] => t < store[k].expiration

\* the value get(k) returns when KVhas
KVvalue(store, k) == store[k].value

\* put(k, value)
KVput(store, k, value) ==
    [ x \in DOMAIN store \cup {k} |-> IF x = k THEN [ value |-> value ] ELSE store[x] ]

\* put(k, value, { expirationTtl: ttl }) at time t
KVputTtl(store, t, k, value, ttl) ==
    [ x \in DOMAIN store \cup {k} |->
        IF x = k THEN [ value |-> value, expiration |-> t + ttl * 1000 ] ELSE store[x] ]

\* delete(k); deleting a key that is not there does nothing
KVdelete(store, k) == [ x \in DOMAIN store \ {k} |-> store[x] ]

\* the namespace at time t, expired entries dropped
KVlive(store, t) == [ x \in { k \in DOMAIN store : KVhas(store, t, k) } |-> store[x] ]

\* the state stored under its bare value
stateKey_bare(state) == state

\* the key /auth stores a state under
stateKey(state) == "oauth_state:" \o state

---------------------------------------------------------------------------
(* Responses *)

corsHeaders(origin) ==
    [ acao |-> origin, methods |-> "GET, POST, OPTIONS", allowHeaders |-> "Content-Type, Authorization" ]

jsonResponse(data, status, origin) ==
    [ status |-> status, contentType |-> "application/json", body |-> data,
      headers |-> corsHeaders(origin) ]

htmlResponse(html) ==
    [ status |-> 200, contentType |-> "text/html", body |-> html, headers |-> << >> ]

\* what the Workers runtime answers when the handler's promise rejects: fetch
\* returns the handler's promise without awaiting it, so its try/catch is not on
\* the path of a rejection
uncaughtException ==
    [ status |-> 500, contentType |-> "runtime-error", body |-> << >>, headers |-> << >> ]

\* an outbound fetch: what was sent and what came back
Fetched(request, answer) == [ request |-> request, answer |-> answer ]

\* the result of serving a request: the namespace afterwards, the response, the
\* outbound fetches and the KV operations made
Result(store, response, outbound, ops) ==
    [ kv |-> store, resp |-> response, out |-> outbound, log |-> ops ]

\* corsHeader / corsOrigin of a request
corsOrigin(request) ==
    LET origin == Get(request.headers, "Origin")
    IN  IF includes(ALLOWED_ORIGINS, origin) THEN origin ELSE ALLOWED_ORIGINS[1]

\* validateApiKey without the comparison of the key
validateApiKey_anyKey(request, env) ==
    /\ "Authorization" \in DOMAIN request.headers
    /\ startsWith(request.headers["Authorization"], << "B", "e", "a", "r", "e", "r", " " >>)

validateApiKey(request, env) ==
    IF "Authorization" \notin DOMAIN request.headers THEN FALSE
    ELSE LET authHeader == request.headers["Authorization"]
         IN  IF authHeader = << >> \/ ~startsWith(authHeader, << "B", "e", "a", "r", "e", "r", " " >>)
             THEN FALSE
             ELSE slice(authHeader, BearerLen) = env.API_KEY

handleOptions(request, store) ==
    Result(store,
           [ status |-> 200, contentType |-> Null, body |-> << >>,
             headers |-> corsHeaders(corsOrigin(request)) ],
           << >>, << >>)

---------------------------------------------------------------------------
(* The OAuth handlers.  Each takes the namespace `store` and the time `t` at   *)
(* which it runs, and `w`, what the outside world answers to this request:     *)
(* w.uuid is what crypto.randomUUID() returns, w.google what the fetch of      *)
(* GOOGLE_TOKEN_URL yields: [kind |-> "json", tokens |-> ...] or, when the      *)
(* fetch or the parse of its body fails, [kind |-> "throw"].                   *)

\* the POST to GOOGLE_TOKEN_URL that exchanges an authorization code
codeExchange(env, url, code) ==
    [ url |-> GOOGLE_TOKEN_URL, method |-> "POST",
      body |-> [ client_id |-> env.GOOGLE_CLIENT_ID, client_secret |-> env.GOOGLE_CLIENT_SECRET,
                 code |-> code, grant_type |-> "authorization_code",
                 redirect_uri |-> url.origin \o "/callback" ] ]

\* the POST to GOOGLE_TOKEN_URL that refreshes the access token
refreshRequest(env, refreshToken) ==
    [ url |-> GOOGLE_TOKEN_URL, method |-> "POST",
      body |-> [ client_id |-> env.GOOGLE_CLIENT_ID, client_secret |-> env.GOOGLE_CLIENT_SECRET,
                 refresh_token |-> refreshToken, grant_type |-> "refresh_token" ] ]

\* expires_in added as if it were milliseconds
newTokenData_seconds(tokens, t) ==
    [ access_token |-> Get(tokens, "access_token"), expires_at |-> t + tokens.expires_in ]

\* tokenData = { access_token, expires_at: Date.now() + expires_in * 1000 }
newTokenData(tokens, t) ==
    [ access_token |-> Get(tokens, "access_token"), expires_at |-> t + tokens.expires_in * 1000 ]

handleAuth(env, url, store, t, w) ==
    LET state       == w.uuid
        redirectUri == url.origin \o "/callback"
        params      == [ client_id |-> env.GOOGLE_CLIENT_ID, redirect_uri |-> redirectUri,
                         response_type |-> "code",
                         scope |-> "https://www.googleapis.com/auth/calendar.readonly",
                         access_type |-> "offline", prompt |-> "consent", state |-> state ]
    IN  Result(KVputTtl(store, t, stateKey(state), "valid", StateTtlSec),
               [ status |-> 302, contentType |-> Null, body |-> << >>,
                 headers |-> [ Location |-> [ url |-> GOOGLE_AUTH_URL, params |-> params ] ] ],
               << >>,
               << <<"put", stateKey(state)>> >>)

\* the refresh token stored whether or not Google's answer has one
storeRefresh_always(store, tokens) == KVput(store, "refresh_token", Get(tokens, "refresh_token"))

\* if (tokens.refresh_token) await put('refresh_token', tokens.refresh_token)
storeRefresh(store, tokens) ==
    IF ~Falsy(Get(tokens, "refresh_token"))
    THEN KVput(store, "refresh_token", tokens.refresh_token)
    ELSE store

\* the part of handleCallback after the state has been found and deleted
exchangeCode(env, url, code, store, t, w, ops) ==
    IF Falsy(code)
    THEN Result(store,
                htmlResponse([ h1 |-> "Authorization Failed", p |-> "No authorization code received" ]),
                << >>, ops)
    ELSE LET sent == << Fetched(codeExchange(env, url, code), w.google) >>
         IN  IF w.google.kind = "throw"
             THEN Result(store, uncaughtException, sent, ops)
             ELSE LET tokens == w.google.tokens
                  IN  IF ~Falsy(Get(tokens, "error"))
                      THEN Result(store,
                                  htmlResponse([ h1 |-> "Token Exchange Failed",
                                                 p  |-> "Error: " \o Or(Get(tokens, "error_description"),
                                                                        tokens.error) ]),
                                  sent, ops)
                      ELSE LET hasRefresh == ~Falsy(Get(tokens, "refresh_token"))
                               store1 == storeRefresh(store, tokens)
                               ops1   == IF hasRefresh
                                         THEN Append(ops, <<"put", "refresh_token">>)
                                         ELSE ops
                               store2 == KVput(store1, "token_data", JSONstringify(newTokenData(tokens, t)))
                           IN  Result(store2,
                                      htmlResponse([ title |-> "Authorization Successful",
                                                     h1 |-> "Connected!",
                                                     p |-> "Google Calendar is now connected.",
                                                     message |-> [ type |-> "oauth-success",
                                                                   accessToken |-> Get(tokens, "access_token"),
                                                                   expiresIn |-> tokens.expires_in ],
                                                     allowedOrigins |-> ALLOWED_ORIGINS ]),
                                      sent,
                                      Append(ops1, <<"put", "token_data">>))

\* the state check left out
stateKnown_unchecked(store, t, state) == TRUE

\* storedState = await get(`oauth_state:${state}`), as a truth value
stateKnown(store, t, state) == KVhas(store, t, stateKey(state))

\* the state left in place
consumeState_kept(store, state) == store

\* await delete(`oauth_state:${state}`)
consumeState(store, state) == KVdelete(store, stateKey(state))

\* the state looked up and deleted before the 'error' parameter is looked at
handleCallback_consumeFirst(request, env, url, store, t, w) ==
    LET code   == Get(url.searchParams, "code")
        state  == Get(url.searchParams, "state")
        known  == ~Falsy(state) /\ stateKnown(store, t, state)
        store1 == IF known THEN consumeState(store, state) ELSE store
    IN  IF "error" \in DOMAIN url.searchParams /\ url.searchParams["error"] # << >>
        THEN Result(store1,
                    htmlResponse([ h1 |-> "Authorization Failed", p |-> "Error: ",
                                   error |-> escapeHtml(url.searchParams["error"]) ]),
                    << >>, << >>)
        ELSE IF Falsy(state)
        THEN Result(store1,
                    htmlResponse([ h1 |-> "Authorization Failed", p |-> "Missing state parameter" ]),
                    << >>, << >>)
        ELSE IF ~known
        THEN Result(store1,
                    htmlResponse([ h1 |-> "Authorization Failed",
                                   p  |-> "Invalid or expired state parameter. Please try again." ]),
                    << >>, << <<"get", stateKey(state)>> >>)
        ELSE exchangeCode(env, url, code, store1, t, w,
                          << <<"get", stateKey(state)>>, <<"delete", stateKey(state)>> >>)

handleCallback(request, env, url, store, t, w) ==
    LET code  == Get(url.searchParams, "code")
        state == Get(url.searchParams, "state")
    IN  IF "error" \in DOMAIN url.searchParams /\ url.searchParams["error"] # << >>
        THEN Result(store,
                    htmlResponse([ h1 |-> "Authorization Failed", p |-> "Error: ",
                                   error |-> escapeHtml(url.searchParams["error"]) ]),
                    << >>, << >>)
        ELSE IF Falsy(state)
        THEN Result(store,
                    htmlResponse([ h1 |-> "Authorization Failed", p |-> "Missing state parameter" ]),
                    << >>, << >>)
        ELSE IF ~stateKnown(store, t, state)
        THEN Result(store,
                    htmlResponse([ h1 |-> "Authorization Failed",
                                   p  |-> "Invalid or expired state parameter. Please try again." ]),
                    << >>, << <<"get", stateKey(state)>> >>)
        ELSE exchangeCode(env, url, code, consumeState(store, state), t, w,
                          << <<"get", stateKey(state)>>, <<"delete", stateKey(state)>> >>)

\* the cached token returned whatever its expiry
stillValid_always(tokenData, t) == TRUE

\* the comparison made inclusive
stillValid_inclusive(tokenData, t) == tokenData.expires_at >= t + CacheSlackMs

\* tokenData.expires_at > Date.now() + 300000
stillValid(tokenData, t) == tokenData.expires_at > t + CacheSlackMs

\* the answer from the cache
cachedAnswer(tokenData, t, corsHeader) ==
    jsonResponse([ access_token |-> tokenData.access_token,
                   expires_in   |-> floorDiv(tokenData.expires_at - t, 1000) ],
                 200, corsHeader)

\* the tokens cleared on any error
clearsTokens_any(error) == TRUE

\* tokens.error === 'invalid_grant'
clearsTokens(error) == error = "invalid_grant"

\* the part of handleToken from the refresh request on
refreshToken(env, corsHeader, refresh, store, t, w, ops) ==
    LET sent == << Fetched(refreshRequest(env, refresh), w.google) >>
    IN  IF w.google.kind = "throw"
        THEN Result(store, uncaughtException, sent, ops)
        ELSE LET tokens == w.google.tokens
             IN  IF ~Falsy(Get(tokens, "error"))
                 THEN LET clear == clearsTokens(tokens.error)
                      IN  Result(IF clear
                                 THEN KVdelete(KVdelete(store, "refresh_token"), "token_data")
                                 ELSE store,
                                 jsonResponse([ error   |-> tokens.error,
                                                message |-> Or(Get(tokens, "error_description"),
                                                               "Token refresh failed") ],
                                              401, corsHeader),
                                 sent,
                                 IF clear
                                 THEN ops \o << <<"delete", "refresh_token">>, <<"delete", "token_data">> >>
                                 ELSE ops)
                 ELSE LET store1 == KVput(store, "token_data", JSONstringify(newTokenData(tokens, t)))
                          hasRefresh == ~Falsy(Get(tokens, "refresh_token"))
                      IN  Result(storeRefresh(store1, tokens),
                                 jsonResponse([ access_token |-> Get(tokens, "access_token"),
                                                expires_in   |-> tokens.expires_in ],
                                              200, corsHeader),
                                 sent,
                                 IF hasRefresh
                                 THEN ops \o << <<"put", "token_data">>, <<"put", "refresh_token">> >>
                                 ELSE Append(ops, <<"put", "token_data">>))

\* refreshToken = await get('refresh_token'); !refreshToken
noRefreshToken(store, t) ==
    ~KVhas(store, t, "refresh_token") \/ Falsy(KVvalue(store, "refresh_token"))

\* handleToken looking at the cache before it looks for the refresh token
handleToken_cacheFirst(request, env, corsHeader, store, t, w) ==
    IF KVhas(store, t, "token_data") /\ stillValid(JSONparse(KVvalue(store, "token_data")), t)
    THEN Result(store,
                cachedAnswer(JSONparse(KVvalue(store, "token_data")), t, corsHeader),
                << >>, << <<"get", "token_data">> >>)
    ELSE IF noRefreshToken(store, t)
    THEN Result(store,
                jsonResponse([ error   |-> "not_authenticated",
                               message |-> "No refresh token stored. Please authenticate first." ],
                             401, corsHeader),
                << >>, << <<"get", "token_data">>, <<"get", "refresh_token">> >>)
    ELSE refreshToken(env, corsHeader, KVvalue(store, "refresh_token"), store, t, w,
                      << <<"get", "token_data">>, <<"get", "refresh_token">> >>)

handleToken(request, env, corsHeader, store, t, w) ==
    IF noRefreshToken(store, t)
    THEN Result(store,
                jsonResponse([ error   |-> "not_authenticated",
                               message |-> "No refresh token stored. Please authenticate first." ],
                             401, corsHeader),
                << >>, << <<"get", "refresh_token">> >>)
    ELSE LET refresh == KVvalue(store, "refresh_token")
             ops     == << <<"get", "refresh_token">>, <<"get", "token_data">> >>
         IN  IF KVhas(store, t, "token_data")
                /\ stillValid(JSONparse(KVvalue(store, "token_data")), t)
             THEN Result(store,
                         cachedAnswer(JSONparse(KVvalue(store, "token_data")), t, corsHeader),
                         << >>, ops)
             ELSE refreshToken(env, corsHeader, refresh, store, t, w, ops)

\* handleLogout that forgets the cached access token
handleLogout_keepCache(request, env, corsHeader, store) ==
    Result(KVdelete(store, "refresh_token"),
           jsonResponse([ success |-> TRUE ], 200, corsHeader),
           << >>,
           << <<"delete", "refresh_token">> >>)

handleLogout(request, env, corsHeader, store) ==
    Result(KVdelete(KVdelete(store, "refresh_token"), "token_data"),
           jsonResponse([ success |-> TRUE ], 200, corsHeader),
           << >>,
           << <<"delete", "refresh_token">>, <<"delete", "token_data">> >>)

\* handleStatus that looks at the cached access token instead
handleStatus_cache(request, env, corsHeader, store, t) ==
    Result(store,
           jsonResponse([ authenticated |-> KVhas(store, t, "token_data") ], 200, corsHeader),
           << >>, << <<"get", "token_data">> >>)

handleStatus(request, env, corsHeader, store, t) ==
    Result(store,
           jsonResponse([ authenticated |-> ~noRefreshToken(store, t) ], 200, corsHeader),
           << >>, << <<"get", "refresh_token">> >>)

---------------------------------------------------------------------------
(* The proxies.  w.rss is what the fetch of the feed yields; w.otrs what the   *)
(* OTOBO web service yields: login, searchNew, searchOpen and, per ticket id,  *)
(* tickets[id], each [kind |-> "json", data |-> ...] or [kind |-> "throw"].    *)
(* A JavaScript value that may be a number or a string is <<"number", n>> or   *)
(* <<"string", s>>; a ticket's Changed date is the number new Date() makes it. *)

handleRSS(url, corsHeader, store, w) ==
    LET feedUrl == Get(url.searchParams, "url")
    IN  IF Falsy(feedUrl)
        THEN Result(store, jsonResponse([ error |-> "Missing url parameter" ], 400, corsHeader),
                    << >>, << >>)
        ELSE IF feedUrl \notin allowedFeeds
        THEN Result(store, jsonResponse([ error |-> "Feed not allowed" ], 403, corsHeader),
                    << >>, << >>)
        ELSE LET sent == << Fetched([ url |-> feedUrl, method |-> "GET" ], w.rss) >>
             IN  IF w.rss.kind = "throw"
                 THEN Result(store, jsonResponse([ error |-> "Failed to fetch feed" ], 502, corsHeader),
                             sent, << >>)
                 ELSE IF ~w.rss.ok
                 THEN Result(store,
                             jsonResponse([ error |-> "Feed returned " \o ToString(w.rss.status) ],
                                          502, corsHeader),
                             sent, << >>)
                 ELSE Result(store,
                             [ status |-> 200, contentType |-> "application/xml", body |-> [ xml |-> w.rss.text ],
                               headers |-> [ acao |-> corsHeader, methods |-> "GET, OPTIONS",
                                             cacheControl |-> "public, max-age=300" ] ],
                             sent, << >>)

\* t.OwnerID == 3
ownedBy3(ticket) == ticket.OwnerID = <<"number", 3>> \/ ticket.OwnerID = <<"string", "3">>

\* tickets.filter(t => t.OwnerID == 3)
RECURSIVE filterOwned(_)
filterOwned(tickets) ==
    IF tickets = << >> THEN << >>
    ELSE (IF ownedBy3(Head(tickets)) THEN << Head(tickets) >> ELSE << >>) \o filterOwned(Tail(tickets))

\* one ticket put into a list sorted by Changed, most recent first, after its equals
RECURSIVE insertByChanged(_, _)
insertByChanged(sorted, ticket) ==
    IF sorted = << >> THEN << ticket >>
    ELSE IF Head(sorted).Changed >= ticket.Changed
         THEN << Head(sorted) >> \o insertByChanged(Tail(sorted), ticket)
         ELSE << ticket >> \o sorted

\* tickets.sort((a, b) => new Date(b.Changed) - new Date(a.Changed))
RECURSIVE sortByChanged(_)
sortByChanged(tickets) ==
    IF tickets = << >> THEN << >>
    ELSE insertByChanged(sortByChanged(SubSeq(tickets, 1, Len(tickets) - 1)), tickets[Len(tickets)])

\* the loop over allTicketIds: [threw, tickets, sent]
RECURSIVE getTickets(_, _, _)
getTickets(ids, sessionId, w) ==
    IF ids = << >> THEN [ threw |-> FALSE, tickets |-> << >>, sent |-> << >> ]
    ELSE LET get  == [ url |-> OTOBO_BASE_URL \o "/Get/" \o ToString(Head(ids)), method |-> "GET",
                       SessionID |-> sessionId, AllArticles |-> 1 ]
             ans  == w.otrs.tickets[Head(ids)]
         IN  IF ans.kind = "throw"
             THEN [ threw |-> TRUE, tickets |-> << >>, sent |-> << Fetched(get, ans) >> ]
             ELSE LET rest == getTickets(Tail(ids), sessionId, w)
                      mine == IF "Ticket" \in DOMAIN ans.data /\ ans.data.Ticket # << >>
                              THEN << ans.data.Ticket[1] >> ELSE << >>
                  IN  [ threw |-> rest.threw, tickets |-> mine \o rest.tickets,
                        sent |-> << Fetched(get, ans) >> \o rest.sent ]

\* one of the two searches
searchRequest(sessionId, stateType) ==
    [ url |-> OTOBO_BASE_URL \o "/Search", method |-> "POST",
      body |-> [ SessionID |-> sessionId, StateType |-> stateType, OwnerIDs |-> << 3 >>, Limit |-> 50 ] ]

otoboFailed(store, corsHeader, sent) ==
    Result(store,
           jsonResponse([ error |-> "Failed to fetch OTOBO tickets", details |-> "fetch failed" ],
                        502, corsHeader),
           sent, << >>)

handleOTRSTickets(env, corsHeader, store, w) ==
    IF Falsy(env.OTRS_USERNAME) \/ Falsy(env.OTRS_PASSWORD)
    THEN Result(store, jsonResponse([ error |-> "OTOBO credentials not configured" ], 500, corsHeader),
                << >>, << >>)
    ELSE
    LET login == << Fetched([ url |-> OTOBO_BASE_URL \o "/Login", method |-> "POST",
                              body |-> [ UserLogin |-> env.OTRS_USERNAME, Password |-> env.OTRS_PASSWORD ] ],
                            w.otrs.login) >>
    IN  IF w.otrs.login.kind = "throw" THEN otoboFailed(store, corsHeader, login)
        ELSE IF Falsy(Get(w.otrs.login.data, "SessionID"))
        THEN Result(store, jsonResponse([ error |-> "OTOBO login failed" ], 401, corsHeader),
                    login, << >>)
        ELSE
        LET sessionId == w.otrs.login.data.SessionID
            sentNew   == Append(login, Fetched(searchRequest(sessionId, "new"), w.otrs.searchNew))
            sentOpen  == Append(sentNew, Fetched(searchRequest(sessionId, "open"), w.otrs.searchOpen))
        IN  IF w.otrs.searchNew.kind = "throw" THEN otoboFailed(store, corsHeader, sentNew)
            ELSE IF w.otrs.searchOpen.kind = "throw" THEN otoboFailed(store, corsHeader, sentOpen)
            ELSE
            LET newData  == w.otrs.searchNew.data
                openData == w.otrs.searchOpen.data
            IN  IF ~Falsy(Get(newData, "Error")) \/ ~Falsy(Get(openData, "Error"))
                THEN Result(store, jsonResponse([ error |-> "OTOBO search failed" ], 500, corsHeader),
                            sentOpen, << >>)
                ELSE
                LET allTicketIds == (IF "TicketID" \in DOMAIN newData THEN newData.TicketID ELSE << >>)
                                    \o (IF "TicketID" \in DOMAIN openData THEN openData.TicketID ELSE << >>)
                IN  IF Len(allTicketIds) = 0
                    THEN Result(store, jsonResponse([ tickets |-> << >> ], 200, corsHeader),
                                sentOpen, << >>)
                    ELSE LET got == getTickets(allTicketIds, sessionId, w)
                         IN  IF got.threw THEN otoboFailed(store, corsHeader, sentOpen \o got.sent)
                             ELSE Result(store,
                                         jsonResponse([ tickets |-> sortByChanged(filterOwned(got.tickets)) ],
                                                      200, corsHeader),
                                         sentOpen \o got.sent, << >>)

---------------------------------------------------------------------------
(* The entry point *)

\* fetch(request, env, ctx) on the namespace `store` at time t, the world answering w
fetch(request, env, store, t, w) ==
    LET url == request.url
    IN  IF request.method = "OPTIONS" THEN handleOptions(request, store)
        ELSE
        LET corsHeader == corsOrigin(request)
        IN  IF url.pathname \notin publicPaths /\ ~validateApiKey(request, env)
            THEN Result(store, jsonResponse([ error |-> "Unauthorized" ], 401, corsHeader), << >>, << >>)
            ELSE CASE url.pathname = "/auth"         -> handleAuth(env, url, store, t, w)
                   [] url.pathname = "/callback"     -> handleCallback(request, env, url, store, t, w)
                   [] url.pathname = "/token"        -> handleToken(request, env, corsHeader, store, t, w)
                   [] url.pathname = "/logout"       -> handleLogout(request, env, corsHeader, store)
                   [] url.pathname = "/status"       -> handleStatus(request, env, corsHeader, store, t)
                   [] url.pathname = "/rss"          -> handleRSS(url, corsHeader, store, w)
                   [] url.pathname = "/otrs/tickets" -> handleOTRSTickets(env, corsHeader, store, w)
                   [] OTHER -> Result(store, jsonResponse([ error |-> "Not found" ], 404, corsHeader),
                                      << >>, << >>)

---------------------------------------------------------------------------
(* The requests and the answers of the outside world the model draws from *)

\* the worker's secrets
Env ==
    [ API_KEY |-> << "k", "1" >>, GOOGLE_CLIENT_ID |-> "client-id",
      GOOGLE_CLIENT_SECRET |-> "client-secret", OTRS_USERNAME |-> "bert", OTRS_PASSWORD |-> "pw" ]

\* the same with the OTOBO secrets not set
EnvNoOtobo == [ Env EXCEPT !.OTRS_USERNAME = Null, !.OTRS_PASSWORD = Null ]

\* Authorization headers: the right key, a wrong key, the right key after a
\* lower-case scheme
Authorizations ==
    { << "B", "e", "a", "r", "e", "r", " ", "k", "1" >>,
      << "B", "e", "a", "r", "e", "r", " ", "k", "2" >>,
      << "b", "e", "a", "r", "e", "r", " ", "k", "1" >> }

\* Origin headers: an allowed origin that is not the first of the list
Origins == { "https://b3.wtf" }

\* the headers of a browser redirect, and of one that forges a key
PublicHeaders == { << >>, [ Authorization |-> << "B", "e", "a", "r", "e", "r", " ", "k", "2" >> ] }

\* the header sets of a request: with or without Authorization, with or without Origin
Headers ==
    { << >> } \cup { [ Authorization |-> a ] : a \in Authorizations }
              \cup { [ Origin |-> o ] : o \in Origins }
              \cup { [ Authorization |-> a, Origin |-> o ] : a \in Authorizations, o \in Origins }

\* the values crypto.randomUUID() can return
UUIDs == { "u" \o ToString(i) : i \in 1..MaxAuth }

\* what Google's token endpoint answers
GoogleGrants ==
    { [ kind |-> "json", tokens |-> [ access_token |-> a, expires_in |-> 600 ] ] : a \in { "a1", "a2" } }
    \cup
    { [ kind |-> "json", tokens |-> [ access_token |-> "a1", expires_in |-> 600, refresh_token |-> "r1" ] ],
      [ kind |-> "json", tokens |-> [ access_token |-> "a2", expires_in |-> 600, refresh_token |-> "r2" ] ] }

GoogleErrors ==
    { [ kind |-> "json", tokens |-> [ error |-> "invalid_grant", error_description |-> "Bad Request" ] ],
      [ kind |-> "json", tokens |-> [ error |-> "invalid_client" ] ] }

GoogleAnswers == GoogleGrants \cup GoogleErrors \cup { [ kind |-> "throw" ] }

\* the query strings of /callback: every state with and without a code, and an
\* 'error' parameter (empty, or with characters to escape) beside some of them
CallbackParams ==
    LET states == { << >> } \cup { [ state |-> s ] : s \in UUIDs \cup { "" } }
        codes  == { << >>, [ code |-> "c1" ] }
        plain  == { s @@ c : s \in states, c \in codes }
    IN  plain
        \cup { q @@ [ error |-> << "<", "e", ">" >> ] : q \in { << >>, [ state |-> "u1", code |-> "c1" ] } }
        \cup { [ state |-> "u1", code |-> "c1", error |-> << >> ] }

RssParams == { << >>, [ url |-> "https://ccb.belgium.be/advisories.xml" ], [ url |-> "https://evil.example/feed" ] }

RssAnswers ==
    { [ kind |-> "throw" ], [ kind |-> "response", ok |-> FALSE, status |-> 503 ],
      [ kind |-> "response", ok |-> TRUE, status |-> 200, text |-> "<rss/>" ] }

OtoboTickets ==
    ( 1 :> [ kind |-> "json", data |-> [ Ticket |-> << [ TicketID |-> 1, OwnerID |-> <<"number", 3>>, Changed |-> 10 ] >> ] ] )
    @@ ( 2 :> [ kind |-> "json", data |-> [ Ticket |-> << [ TicketID |-> 2, OwnerID |-> <<"string", "3">>, Changed |-> 20 ] >> ] ] )
    @@ ( 3 :> [ kind |-> "json", data |-> [ Ticket |-> << [ TicketID |-> 3, OwnerID |-> <<"number", 4>>, Changed |-> 30 ] >> ] ] )
    @@ ( 4 :> [ kind |-> "json", data |-> [ Error |-> "TicketGet.NotAuthorized" ] ] )
    @@ ( 5 :> [ kind |-> "throw" ] )

\* the secrets and the web service's answers of a /otrs/tickets request
OtoboCases ==
    LET ok(d)  == [ kind |-> "json", data |-> d ]
        throw  == [ kind |-> "throw" ]
        in     == ok([ SessionID |-> "sid" ])
        none   == ok(<< >>)
        ids(s) == ok([ TicketID |-> s ])
        O(l, n, o) == [ login |-> l, searchNew |-> n, searchOpen |-> o, tickets |-> OtoboTickets ]
        all    == { O(throw, none, none), O(ok([ Error |-> "Auth failed" ]), none, none),
                    O(in, throw, none), O(in, none, throw),
                    O(in, ok([ Error |-> "Search failed" ]), none), O(in, none, none),
                    O(in, ids(<< 1 >>), ids(<< 3, 2, 4 >>)), O(in, ids(<< 1 >>), ids(<< 5, 2 >>)) }
    IN  { << Env, a >> : a \in all } \cup { << EnvNoOtobo, O(in, none, none) >> }

\* what the world answers to a request that asks nothing of it
NoAnswer == [ kind |-> "none" ]

World(uuid, google, rss, otrs) == [ uuid |-> uuid, google |-> google, rss |-> rss, otrs |-> otrs ]

Request(method, pathname, searchParams, headers) ==
    [ method |-> method,
      url |-> [ origin |-> "https://worker.example", pathname |-> pathname, searchParams |-> searchParams ],
      headers |-> headers ]

\* the clock advances by one of these between requests
Deltas == { 1, 299999 }

---------------------------------------------------------------------------
(* The state machine *)

NoRequest == Request(Null, Null, << >>, << >>)

NoResponse == [ status |-> 0, contentType |-> Null, body |-> << >>, headers |-> << >> ]

Init ==
    /\ kv = << >>
    /\ now = 0
    /\ ticks = 0
    /\ issued = {}
    /\ req = NoRequest
    /\ resp = NoResponse
    /\ out = << >>
    /\ log = << >>
    /\ flight = << >>
    /\ loggedOut = FALSE

\* the worker serves one request, from its arrival to its response; the actions
\* below take it while the worker is idle, one request after another.  Every
\* Date.now() of the handler reads `now`: the time a request takes is part of
\* the time that passes between requests (Tick)
Serve(request, env, w) ==
    LET r == fetch(request, env, kv, now, w)
    IN  /\ kv' = r.kv
        /\ req' = request
        /\ resp' = r.resp
        /\ out' = r.out
        /\ log' = r.log
        /\ issued' = issued \cup { u \in UUIDs : \E i \in 1..Len(r.log) : r.log[i] = <<"put", stateKey(u)>> }
        /\ UNCHANGED <<now, ticks, flight, loggedOut>>

\* crypto.randomUUID() returns a value it has not returned before; which one is
\* immaterial, so the values are named in the order they are drawn
randomUUID == "u" \o ToString(Cardinality(issued) + 1)

Auth ==
    /\ req = NoRequest
    /\ Cardinality(issued) < MaxAuth
    /\ \E h \in PublicHeaders :
        Serve(Request("GET", "/auth", << >>, h), Env, World(randomUUID, NoAnswer, NoAnswer, NoAnswer))

Callback ==
    /\ req = NoRequest
    /\ \E h \in PublicHeaders, q \in CallbackParams, g \in GoogleAnswers :
           Serve(Request("GET", "/callback", q, h), Env, World(Null, g, NoAnswer, NoAnswer))

Token ==
    /\ req = NoRequest
    /\ \E h \in Headers, g \in GoogleAnswers :
           Serve(Request("GET", "/token", << >>, h), Env, World(Null, g, NoAnswer, NoAnswer))

Logout ==
    /\ req = NoRequest
    /\ \E h \in Headers, m \in { "GET", "POST" } :
           Serve(Request(m, "/logout", << >>, h), Env, World(Null, NoAnswer, NoAnswer, NoAnswer))

Status ==
    /\ req = NoRequest
    /\ \E h \in Headers :
           Serve(Request("GET", "/status", << >>, h), Env, World(Null, NoAnswer, NoAnswer, NoAnswer))

Rss ==
    /\ req = NoRequest
    /\ \E h \in Headers, q \in RssParams, a \in RssAnswers :
           Serve(Request("GET", "/rss", q, h), Env, World(Null, NoAnswer, a, NoAnswer))

Otrs ==
    /\ req = NoRequest
    /\ \E h \in Headers, c \in OtoboCases :
           Serve(Request("GET", "/otrs/tickets", << >>, h), c[1], World(Null, NoAnswer, NoAnswer, c[2]))

Other ==
    /\ req = NoRequest
    /\ \E h \in Headers, m \in { "GET", "POST" }, path \in { "/", "/tokens" } :
           Serve(Request(m, path, << >>, h), Env, World(Null, NoAnswer, NoAnswer, NoAnswer))

Options ==
    /\ req = NoRequest
    /\ \E h \in { << >>, [ Origin |-> "https://b3.wtf" ], [ Origin |-> "https://evil.example" ] },
          path \in { "/auth", "/token", "/" } :
           Serve(Request("OPTIONS", path, << >>, h), Env, World(Null, NoAnswer, NoAnswer, NoAnswer))

\* the response has been sent: the worker is idle again
Done ==
    /\ req # NoRequest
    /\ req' = NoRequest
    /\ resp' = NoResponse
    /\ out' = << >>
    /\ log' = << >>
    /\ UNCHANGED <<kv, now, ticks, issued, flight, loggedOut>>

\* time passes between requests; the namespace drops the entries that expire
Tick ==
    /\ req = NoRequest
    /\ ticks < MaxTicks
    /\ \E d \in Deltas :
        /\ now' = now + d
        /\ kv' = KVlive(kv, now + d)
    /\ ticks' = ticks + 1
    /\ UNCHANGED <<issued, req, resp, out, log, flight, loggedOut>>

Next ==
    \/ Auth
    \/ Callback
    \/ Token
    \/ Logout
    \/ Status
    \/ Rss
    \/ Otrs
    \/ Other
    \/ Options
    \/ Done
    \/ Tick

Spec == Init /\ [][Next]_vars

---------------------------------------------------------------------------
(* Handlers step by step.  The runtime runs several invocations of fetch  *)
(* at once and switches between them at every await.  Below, handleCallback, *)
(* handleToken and handleLogout run one await at a time: a step is one KV  *)
(* operation, the sending of the fetch to Google, or the arrival of its    *)
(* answer, together with the synchronous code that follows it up to the    *)
(* next await.  `pc` names the await the invocation is about to make.      *)
(* handleAuth has a single await and stays one step (Auth).                *)

\* an invocation that has just arrived at its handler
Invocation(request, first) ==
    [ request |-> request, pc |-> first, out |-> << >>, refresh |-> Null,
      tokenData |-> [ access_token |-> Null, expires_at |-> 0 ], resp |-> NoResponse ]

\* one step of an invocation: the invocation and the namespace after it
Turn(inv, store) == [ inv |-> inv, kv |-> store ]

\* the handler returns its response
finish(inv, response) == [ inv EXCEPT !.pc = "done", !.resp = response ]

\* fetch(GOOGLE_TOKEN_URL, ...) is sent; the answer is awaited
send(inv, request) == [ inv EXCEPT !.pc = "waiting", !.out = << Fetched(request, NoAnswer) >> ]

\* the answer arrives
receive(inv, answer) == [ inv EXCEPT !.out = << Fetched(inv.out[1].request, answer) >> ]

callbackStep(inv, env, store, t, g) ==
    LET url   == inv.request.url
        code  == Get(url.searchParams, "code")
        state == Get(url.searchParams, "state")
    IN  CASE inv.pc = "get" ->
                 IF "error" \in DOMAIN url.searchParams /\ url.searchParams["error"] # << >>
                 THEN Turn(finish(inv, htmlResponse([ h1 |-> "Authorization Failed", p |-> "Error: ",
                                                      error |-> escapeHtml(url.searchParams["error"]) ])),
                           store)
                 ELSE IF Falsy(state)
                 THEN Turn(finish(inv, htmlResponse([ h1 |-> "Authorization Failed",
                                                      p  |-> "Missing state parameter" ])),
                           store)
                 ELSE IF ~stateKnown(store, t, state)
                 THEN Turn(finish(inv, htmlResponse([ h1 |-> "Authorization Failed",
                                                      p  |-> "Invalid or expired state parameter. Please try again." ])),
                           store)
                 ELSE Turn([ inv EXCEPT !.pc = "delete" ], store)
          [] inv.pc = "delete" ->
                 IF Falsy(code)
                 THEN Turn(finish(inv, htmlResponse([ h1 |-> "Authorization Failed",
                                                      p  |-> "No authorization code received" ])),
                           consumeState(store, state))
                 ELSE Turn([ inv EXCEPT !.pc = "send" ], consumeState(store, state))
          [] inv.pc = "send" ->
                 Turn(send(inv, codeExchange(env, url, code)), store)
          [] inv.pc = "waiting" ->
                 IF g.kind = "throw"
                 THEN Turn(finish(receive(inv, g), uncaughtException), store)
                 ELSE IF ~Falsy(Get(g.tokens, "error"))
                 THEN Turn(finish(receive(inv, g),
                                  htmlResponse([ h1 |-> "Token Exchange Failed",
                                                 p  |-> "Error: " \o Or(Get(g.tokens, "error_description"),
                                                                        g.tokens.error) ])),
                           store)
                 ELSE IF ~Falsy(Get(g.tokens, "refresh_token"))
                 THEN Turn([ receive(inv, g) EXCEPT !.pc = "putRefresh" ], store)
                 ELSE Turn([ receive(inv, g) EXCEPT !.pc = "putData",
                                                    !.tokenData = newTokenData(g.tokens, t) ],
                           store)
          [] inv.pc = "putRefresh" ->
                 LET tokens == inv.out[1].answer.tokens
                 IN  Turn([ inv EXCEPT !.pc = "putData", !.tokenData = newTokenData(tokens, t) ],
                          storeRefresh(store, tokens))
          [] inv.pc = "putData" ->
                 LET tokens == inv.out[1].answer.tokens
                 IN  Turn(finish(inv, htmlResponse([ title |-> "Authorization Successful",
                                                     h1 |-> "Connected!",
                                                     p |-> "Google Calendar is now connected.",
                                                     message |-> [ type |-> "oauth-success",
                                                                   accessToken |-> Get(tokens, "access_token"),
                                                                   expiresIn |-> tokens.expires_in ],
                                                     allowedOrigins |-> ALLOWED_ORIGINS ])),
                          KVput(store, "token_data", JSONstringify(inv.tokenData)))

tokenStep(inv, env, store, t, g) ==
    LET corsHeader == corsOrigin(inv.request)
    IN  CASE inv.pc = "getRefresh" ->
                 IF noRefreshToken(store, t)
                 THEN Turn(finish(inv, jsonResponse([ error   |-> "not_authenticated",
                                                      message |-> "No refresh token stored. Please authenticate first." ],
                                                    401, corsHeader)),
                           store)
                 ELSE Turn([ inv EXCEPT !.pc = "getData", !.refresh = KVvalue(store, "refresh_token") ], store)
          [] inv.pc = "getData" ->
                 IF KVhas(store, t, "token_data")
                    /\ stillValid(JSONparse(KVvalue(store, "token_data")), t)
                 THEN Turn(finish(inv, cachedAnswer(JSONparse(KVvalue(store, "token_data")), t, corsHeader)),
                           store)
                 ELSE Turn([ inv EXCEPT !.pc = "send" ], store)
          [] inv.pc = "send" ->
                 Turn(send(inv, refreshRequest(env, inv.refresh)), store)
          [] inv.pc = "waiting" ->
                 IF g.kind = "throw"
                 THEN Turn(finish(receive(inv, g), uncaughtException), store)
                 ELSE IF ~Falsy(Get(g.tokens, "error"))
                 THEN IF clearsTokens(g.tokens.error)
                      THEN Turn([ receive(inv, g) EXCEPT !.pc = "delRefresh" ], store)
                      ELSE Turn(finish(receive(inv, g),
                                       jsonResponse([ error   |-> g.tokens.error,
                                                      message |-> Or(Get(g.tokens, "error_description"),
                                                                     "Token refresh failed") ],
                                                    401, corsHeader)),
                                store)
                 ELSE Turn([ receive(inv, g) EXCEPT !.pc = "putData",
                                                    !.tokenData = newTokenData(g.tokens, t) ],
                           store)
          [] inv.pc = "delRefresh" ->
                 Turn([ inv EXCEPT !.pc = "delData" ], KVdelete(store, "refresh_token"))
          [] inv.pc = "delData" ->
                 LET tokens == inv.out[1].answer.tokens
                 IN  Turn(finish(inv, jsonResponse([ error   |-> tokens.error,
                                                     message |-> Or(Get(tokens, "error_description"),
                                                                    "Token refresh failed") ],
                                                   401, corsHeader)),
                          KVdelete(store, "token_data"))
          [] inv.pc = "putData" ->
                 LET tokens == inv.out[1].answer.tokens
                     store1 == KVput(store, "token_data", JSONstringify(inv.tokenData))
                 IN  IF ~Falsy(Get(tokens, "refresh_token"))
                     THEN Turn([ inv EXCEPT !.pc = "putRefresh" ], store1)
                     ELSE Turn(finish(inv, jsonResponse([ access_token |-> Get(tokens, "access_token"),
                                                          expires_in   |-> tokens.expires_in ],
                                                        200, corsHeader)),
                               store1)
          [] inv.pc = "putRefresh" ->
                 LET tokens == inv.out[1].answer.tokens
                 IN  Turn(finish(inv, jsonResponse([ access_token |-> Get(tokens, "access_token"),
                                                     expires_in   |-> tokens.expires_in ],
                                                   200, corsHeader)),
                          storeRefresh(store, tokens))

logoutStep(inv, store) ==
    CASE inv.pc = "delRefresh" ->
             Turn([ inv EXCEPT !.pc = "delData" ], KVdelete(store, "refresh_token"))
      [] inv.pc = "delData" ->
             Turn(finish(inv, jsonResponse([ success |-> TRUE ], 200, corsOrigin(inv.request))),
                  KVdelete(store, "token_data"))

\* the first await of each handler that runs step by step
firstAwait == [ callback |-> "get", token |-> "getRefresh", logout |-> "delRefresh" ]

\* the requests that arrive while others are in flight: the callback of the
\* first state with a code, and /token and /logout with the API key
Arriving ==
    LET key == [ Authorization |-> << "B", "e", "a", "r", "e", "r", " ", "k", "1" >> ]
    IN  { Invocation(Request("GET", "/callback", [ state |-> "u1", code |-> "c1" ], << >>), firstAwait.callback),
          Invocation(Request("GET", "/token", << >>, key), firstAwait.token),
          Invocation(Request("POST", "/logout", << >>, key), firstAwait.logout) }

\* the invocations of a handler that have not returned yet
Running(path) ==
    { i \in DOMAIN flight : flight[i].request.url.pathname = path /\ flight[i].pc # "done" }

\* what the step of an invocation may get from Google: an answer while it waits for one
Answers(inv) ==
    IF inv.pc = "waiting"
    THEN { [ kind |-> "json", tokens |-> [ access_token |-> "a1", expires_in |-> 600 ] ],
           [ kind |-> "json", tokens |-> [ access_token |-> "a2", expires_in |-> 600, refresh_token |-> "r2" ] ],
           [ kind |-> "json", tokens |-> [ error |-> "invalid_grant", error_description |-> "Bad Request" ] ],
           [ kind |-> "throw" ] }
    ELSE { NoAnswer }

\* /auth, served in one step as before; one state is handed out in these runs
AuthOnce ==
    /\ issued = {}
    /\ Auth

\* fetch authenticates and routes the request (no await): the handler is entered
Arrive ==
    /\ req = NoRequest
    /\ Len(flight) < MaxFlight
    /\ \E inv \in Arriving :
        /\ inv.request.url.pathname \in publicPaths \/ validateApiKey(inv.request, Env)
        /\ flight' = Append(flight, inv)
    /\ UNCHANGED <<kv, now, ticks, issued, req, resp, out, log, loggedOut>>

CallbackStep ==
    /\ req = NoRequest
    /\ \E i \in Running("/callback") : \E g \in Answers(flight[i]) :
        LET r == callbackStep(flight[i], Env, kv, now, g)
        IN  /\ flight' = [ flight EXCEPT ![i] = r.inv ]
            /\ kv' = r.kv
            /\ loggedOut' = ( loggedOut /\ flight[i].pc \notin { "putRefresh", "putData" } )
            /\ UNCHANGED <<now, ticks, issued, req, resp, out, log>>

TokenStep ==
    /\ req = NoRequest
    /\ \E i \in Running("/token") : \E g \in Answers(flight[i]) :
        LET r == tokenStep(flight[i], Env, kv, now, g)
        IN  /\ flight' = [ flight EXCEPT ![i] = r.inv ]
            /\ kv' = r.kv
            /\ UNCHANGED <<now, ticks, issued, req, resp, out, log, loggedOut>>

LogoutStep ==
    /\ req = NoRequest
    /\ \E i \in Running("/logout") :
        LET r == logoutStep(flight[i], kv)
        IN  /\ flight' = [ flight EXCEPT ![i] = r.inv ]
            /\ kv' = r.kv
            /\ loggedOut' = ( loggedOut \/ ( r.inv.pc = "done" /\ DOMAIN r.kv \cap { "refresh_token", "token_data" } = {} ) )
            /\ UNCHANGED <<now, ticks, issued, req, resp, out, log>>

NextInterleaved ==
    \/ AuthOnce
    \/ Done
    \/ Tick
    \/ Arrive
    \/ CallbackStep
    \/ TokenStep
    \/ LogoutStep

SpecInterleaved == Init /\ [][NextInterleaved]_vars

---------------------------------------------------------------------------
(* Vocabulary of the properties.  These read the request and the namespace  *)
(* directly; none of them goes through the handlers.                        *)

\* this step serves a request
Serving == req = NoRequest /\ req' # NoRequest

Path(r) == r.url.pathname

Param(r, name) == Get(r.url.searchParams, name)

\* the request carries 'Authorization: Bearer <env.API_KEY>'
KeyOk(r) ==
    /\ "Authorization" \in DOMAIN r.headers
    /\ r.headers["Authorization"] = << "B", "e", "a", "r", "e", "r", " " >> \o Env.API_KEY

\* the request is routed to the handler of `path` with the key the path needs
Routed(r, path) ==
    /\ r.method # "OPTIONS"
    /\ Path(r) = path
    /\ path \in { "/auth", "/callback" } \/ KeyOk(r)

\* the 'error' field of a JSON response, Null when it has none
JsonError(r) ==
    IF r.contentType = "application/json" /\ "error" \in DOMAIN r.body THEN r.body.error ELSE Null

\* the paragraph of an HTML response, Null for any other response
PageText(r) == IF r.contentType = "text/html" THEN r.body.p ELSE Null

\* the two token entries of a namespace
Tokens(store) == [ k \in DOMAIN store \cap { "refresh_token", "token_data" } |-> store[k] ]

\* the request has a 'state' parameter whose entry is in the namespace, unexpired
StateLive(r) ==
    /\ ~Falsy(Param(r, "state"))
    /\ ("oauth_state:" \o Param(r, "state")) \in DOMAIN kv
    /\ now < kv["oauth_state:" \o Param(r, "state")].expiration

\* the request has an 'error' parameter that is not empty
HasError(r) == "error" \in DOMAIN r.url.searchParams /\ r.url.searchParams["error"] # << >>

---------------------------------------------------------------------------
(* C1: a request that is not OPTIONS, not to /auth or /callback, and does   *)
(* not carry 'Bearer <API_KEY>' is answered 401 {error: 'Unauthorized'},    *)
(* whatever its path (known or unknown), with no KV operation, no change of *)
(* the namespace and no outbound request.                                   *)
C1_KeyBeforeRouting ==
    [][ ( /\ Serving
          /\ req'.method # "OPTIONS"
          /\ Path(req') \notin { "/auth", "/callback" }
          /\ ~KeyOk(req') )
        => ( /\ resp'.status = 401
             /\ JsonError(resp') = "Unauthorized"
             /\ resp'.body = [ error |-> "Unauthorized" ]
             /\ log' = << >>
             /\ out' = << >>
             /\ kv' = kv ) ]_vars

\* an unknown path asked without a key while tokens are stored: 401, not 404
C1_Witness ==
    /\ req.method = "GET"
    /\ Path(req) = "/tokens"
    /\ "Authorization" \notin DOMAIN req.headers
    /\ resp.status = 401
    /\ { "refresh_token", "token_data" } \subseteq DOMAIN kv

(* C2: a /callback sends a code to Google, or changes 'refresh_token' or    *)
(* 'token_data', only if its state parameter is present, was issued by an   *)
(* earlier /auth and its 'oauth_state:<state>' entry is still in the        *)
(* namespace; what it sends is the request's own code.                      *)
C2_StateValidated ==
    [][ ( /\ Serving
          /\ Routed(req', "/callback")
          /\ out' # << >> \/ Tokens(kv') # Tokens(kv) )
        => ( /\ StateLive(req')
             /\ Param(req', "state") \in issued
             /\ Len(out') = 1
             /\ out'[1].request.url = GOOGLE_TOKEN_URL
             /\ out'[1].request.body.grant_type = "authorization_code"
             /\ out'[1].request.body.code = Param(req', "code") ) ]_vars

\* a callback whose state was issued and is live has stored both tokens
C2_Witness ==
    /\ Path(req) = "/callback"
    /\ Param(req, "state") \in issued
    /\ Len(out) = 1
    /\ PageText(resp) = "Google Calendar is now connected."
    /\ { "refresh_token", "token_data" } \subseteq DOMAIN kv

Cached == JSONparse(kv["token_data"].value)

\* the stored access token has more than 5 minutes left
CacheFresh == "token_data" \in DOMAIN kv /\ Cached.expires_at > now + 300000

\* the one outbound request is a refresh carrying the stored refresh token
SentRefresh(o) ==
    /\ Len(o) = 1
    /\ o[1].request.url = GOOGLE_TOKEN_URL
    /\ o[1].request.body.grant_type = "refresh_token"
    /\ o[1].request.body.refresh_token = kv["refresh_token"].value

\* Google did not grant what the one outbound request asked for
Refused(o) == Len(o) = 1 /\ ( o[1].answer.kind = "throw" \/ "error" \in DOMAIN o[1].answer.tokens )

\* a 200 JSON response with an access token
GivesToken(r) ==
    /\ r.status = 200
    /\ r.contentType = "application/json"
    /\ "access_token" \in DOMAIN r.body
    /\ r.body.access_token # Null

(* C4: once a refresh token is stored it stays stored through every step    *)
(* that is neither an authorized /logout nor a /token refresh that Google   *)
(* refused; and while it is stored, an authorized /token request either     *)
(* returns 200 with an access token (the cached one only if it has more     *)
(* than 5 minutes left, otherwise the one Google just granted for the       *)
(* stored refresh token) or was refused by Google.  No /auth or /callback   *)
(* is needed in between.                                                    *)
C4_RefreshForever ==
    [][ /\ ( /\ "refresh_token" \in DOMAIN kv
             /\ ~( Serving /\ Routed(req', "/logout") )
             /\ ~( Serving /\ Routed(req', "/token") /\ Refused(out') ) )
           => "refresh_token" \in DOMAIN kv'
        /\ ( Serving /\ Routed(req', "/token") /\ "refresh_token" \in DOMAIN kv )
           => \/ /\ GivesToken(resp')
                 /\ out' = << >>
                 /\ CacheFresh
                 /\ resp'.body.access_token = Cached.access_token
              \/ /\ GivesToken(resp')
                 /\ SentRefresh(out')
                 /\ ~Refused(out')
                 /\ resp'.body.access_token = out'[1].answer.tokens.access_token
              \/ /\ SentRefresh(out')
                 /\ Refused(out') ]_vars

\* a /token request after the cached token ran out, refreshed through Google
C4_Witness ==
    /\ Path(req) = "/token"
    /\ GivesToken(resp)
    /\ Len(out) = 1
    /\ now >= 300000

NoTokens(store) == DOMAIN store \cap { "refresh_token", "token_data" } = {}

\* this step serves a /callback that passes every check and gets a grant from Google
CallbackSucceeds ==
    /\ Serving
    /\ Routed(req', "/callback")
    /\ ~HasError(req')
    /\ StateLive(req')
    /\ ~Falsy(Param(req', "code"))
    /\ Len(out') = 1
    /\ ~Refused(out')

(* C6: an authorized /logout leaves neither 'refresh_token' nor             *)
(* 'token_data' in the namespace; and from then on (requests being served   *)
(* one after another), through every step that is not a succeeding          *)
(* /callback, both stay absent, every authorized /status reports            *)
(* authenticated: false and every authorized /token returns 401             *)
(* 'not_authenticated'.                                                     *)
C6_LogoutClears ==
    [][ /\ ( Serving /\ Routed(req', "/logout") )
           => /\ NoTokens(kv')
              /\ resp'.status = 200
        /\ ( NoTokens(kv) /\ ~CallbackSucceeds )
           => /\ NoTokens(kv')
              /\ ( Serving /\ Routed(req', "/status") )
                 => /\ resp'.contentType = "application/json"
                    /\ resp'.body = [ authenticated |-> FALSE ]
              /\ ( Serving /\ Routed(req', "/token") )
                 => /\ resp'.status = 401
                    /\ JsonError(resp') = "not_authenticated"
                    /\ out' = << >> ]_vars

\* an authorized /logout has been served
C6_Witness ==
    /\ Path(req) = "/logout"
    /\ KeyOk(req)
    /\ resp.status = 200
    /\ resp.body = [ success |-> TRUE ]
    /\ issued # {}
    /\ NoTokens(kv)

(* C7: an authorized /status reports authenticated: true exactly when       *)
(* 'refresh_token' is in the namespace, leaves the namespace as it was,     *)
(* only reads from it, and sends nothing.                                   *)
C7_StatusReadsOnly ==
    [][ ( Serving /\ Routed(req', "/status") )
        => /\ resp'.status = 200
           /\ resp'.contentType = "application/json"
           /\ resp'.body = [ authenticated |-> ("refresh_token" \in DOMAIN kv) ]
           /\ kv' = kv
           /\ \A i \in 1..Len(log') : log'[i][1] = "get"
           /\ out' = << >> ]_vars

\* /status answers false although an unexpired access token is cached
C7_Witness ==
    /\ Path(req) = "/status"
    /\ resp.status = 200
    /\ resp.body = [ authenticated |-> FALSE ]
    /\ "token_data" \in DOMAIN kv

(* C8, as claimed: every key of the namespace is 'refresh_token' or         *)
(* 'token_data'.                                                            *)
C8_TwoKeysOnly == DOMAIN kv \subseteq { "refresh_token", "token_data" }

(* C8, amended: every key of the namespace is 'refresh_token' or            *)
(* 'token_data', stored without expiry, or 'oauth_state:<state>' for a      *)
(* state that /auth issued, holding 'valid' and expiring within 300         *)
(* seconds.                                                                 *)
C8_KeysStored ==
    \A k \in DOMAIN kv :
        \/ /\ k \in { "refresh_token", "token_data" }
           /\ DOMAIN kv[k] = { "value" }
        \/ \E s \in issued :
             /\ k = "oauth_state:" \o s
             /\ kv[k].value = "valid"
             /\ now < kv[k].expiration
             /\ kv[k].expiration <= now + 300 * 1000

\* the namespace holds both tokens and a pending state
C8_Witness == { "refresh_token", "token_data", "oauth_state:u2" } \subseteq DOMAIN kv

(* C9: an authorized /token request made while no 'refresh_token' is stored *)
(* returns 401 'not_authenticated', sends nothing and leaves the namespace  *)
(* as it was, even when an unexpired access token is cached.                *)
C9_NotAuthenticated ==
    [][ ( Serving /\ Routed(req', "/token") /\ "refresh_token" \notin DOMAIN kv )
        => /\ resp'.status = 401
           /\ JsonError(resp') = "not_authenticated"
           /\ out' = << >>
           /\ kv' = kv ]_vars

\* 401 'not_authenticated' while the cache holds a token with over 5 minutes left
C9_Witness ==
    /\ Path(req) = "/token"
    /\ JsonError(resp) = "not_authenticated"
    /\ "refresh_token" \notin DOMAIN kv
    /\ CacheFresh

(* C10: when Google answers the refresh of a /token request with an error,  *)
(* the response is 401 with that error code; 'invalid_grant' removes both   *)
(* token entries and nothing else, any other code leaves the namespace as   *)
(* it was.                                                                  *)
C10_RefreshFailure ==
    [][ ( /\ Serving
          /\ Routed(req', "/token")
          /\ Len(out') = 1
          /\ out'[1].answer.kind = "json"
          /\ "error" \in DOMAIN out'[1].answer.tokens )
        => LET error == out'[1].answer.tokens.error
           IN  /\ resp'.status = 401
               /\ JsonError(resp') = error
               /\ error = "invalid_grant"
                  => /\ NoTokens(kv')
                     /\ kv' = [ k \in DOMAIN kv \ { "refresh_token", "token_data" } |-> kv[k] ]
               /\ error # "invalid_grant" => kv' = kv ]_vars

\* a refresh refused with another code than 'invalid_grant': both tokens still stored
C10_Witness ==
    /\ Path(req) = "/token"
    /\ resp.status = 401
    /\ JsonError(resp) = "invalid_client"
    /\ { "refresh_token", "token_data" } \subseteq DOMAIN kv

\* a refresh refused with 'invalid_grant' while a state is pending: only the tokens go
C10_WitnessCleared ==
    /\ Path(req) = "/token"
    /\ JsonError(resp) = "invalid_grant"
    /\ NoTokens(kv)
    /\ DOMAIN kv # {}

(* C11: a /token request whose refresh Google granted leaves in 'token_data' *)
(* the granted access token with expires_at = now + expires_in * 1000 and   *)
(* answers 200 with that access token; 'token_data' and 'refresh_token' are *)
(* then left as they are by every step that is not a /callback, an          *)
(* authorized /logout or a /token request that contacted Google; and an     *)
(* authorized /token request that finds the stored token with more than     *)
(* 300000 ms left answers with the stored access token and sends nothing.   *)
C11_RefreshedTokenServed ==
    [][ /\ ( Serving /\ Routed(req', "/token") /\ SentRefresh(out') /\ ~Refused(out') )
           => LET granted == out'[1].answer.tokens
              IN  /\ "token_data" \in DOMAIN kv'
                  /\ JSONparse(kv'["token_data"].value)
                       = [ access_token |-> granted.access_token,
                           expires_at   |-> now + granted.expires_in * 1000 ]
                  /\ GivesToken(resp')
                  /\ resp'.body.access_token = granted.access_token
        /\ ( /\ "token_data" \in DOMAIN kv
             /\ ~( Serving /\ Path(req') = "/callback" )
             /\ ~( Serving /\ Routed(req', "/logout") )
             /\ ~( Serving /\ Routed(req', "/token") /\ out' # << >> ) )
           => Tokens(kv') = Tokens(kv)
        /\ ( Serving /\ Routed(req', "/token") /\ "refresh_token" \in DOMAIN kv /\ CacheFresh )
           => /\ GivesToken(resp')
              /\ resp'.body.access_token = Cached.access_token
              /\ out' = << >> ]_vars

\* a granted refresh, later than time 0: the granted token is stored for 600 s from now
C11_Witness ==
    /\ Path(req) = "/token"
    /\ Len(out) = 1
    /\ out[1].answer.kind = "json"
    /\ GivesToken(resp)
    /\ now > 0
    /\ Cached = [ access_token |-> resp.body.access_token, expires_at |-> now + 600000 ]

\* Google answered the one outbound request with a JSON body that has an 'error'
ExchangeRefused(o) ==
    /\ Len(o) = 1
    /\ o[1].answer.kind = "json"
    /\ "error" \in DOMAIN o[1].answer.tokens

\* the namespace without the entry of the request's state
StateConsumed(r) == [ k \in DOMAIN kv \ { "oauth_state:" \o Param(r, "state") } |-> kv[k] ]

(* C12 as stated, an 'error' parameter being one that the query string      *)
(* carries, whatever its value: a /callback with an 'error' parameter, with *)
(* no state, or with a state that has no live entry leaves the namespace    *)
(* entirely unchanged; one with a live state and no code, or whose code     *)
(* exchange Google answered with an error, only loses 'oauth_state:<state>'.*)
C12_FailingCallbackFrame ==
    [][ ( Serving /\ Routed(req', "/callback") )
        => LET carriesError == "error" \in DOMAIN req'.url.searchParams
           IN  /\ carriesError => kv' = kv
               /\ ( ~carriesError /\ ~StateLive(req') ) => kv' = kv
               /\ ( ~carriesError /\ StateLive(req') /\ Falsy(Param(req', "code")) )
                  => kv' = StateConsumed(req')
               /\ ( ~carriesError /\ StateLive(req') /\ ExchangeRefused(out') )
                  => kv' = StateConsumed(req') ]_vars

(* C12, amended: the same with an 'error' parameter that is not empty (an   *)
(* empty one is handled as if it were absent).  A /callback with a          *)
(* non-empty 'error' parameter, with no state, or with a state that has no  *)
(* live entry leaves the namespace entirely unchanged and sends nothing;    *)
(* one with a live state and no code, or whose code exchange Google         *)
(* answered with an error or not at all, only loses 'oauth_state:<state>';  *)
(* in every such case 'refresh_token' and 'token_data' are as before.       *)
C12_FailingCallbackFrameNonEmpty ==
    [][ ( Serving /\ Routed(req', "/callback") )
        => /\ HasError(req') => ( kv' = kv /\ out' = << >> )
           /\ ( ~HasError(req') /\ ~StateLive(req') ) => ( kv' = kv /\ out' = << >> )
           /\ ( ~HasError(req') /\ StateLive(req') /\ Falsy(Param(req', "code")) )
              => ( kv' = StateConsumed(req') /\ out' = << >> )
           /\ ( ~HasError(req') /\ StateLive(req') /\ Refused(out') )
              => kv' = StateConsumed(req')
           /\ PageText(resp') # "Google Calendar is now connected."
              => Tokens(kv') = Tokens(kv) ]_vars

\* a live state, a code and an 'error' parameter: rejected with tokens and state in place
C12_Witness ==
    /\ Path(req) = "/callback"
    /\ HasError(req)
    /\ StateLive(req)
    /\ Param(req, "code") = "c1"
    /\ { "refresh_token", "token_data" } \subseteq DOMAIN kv
    /\ PageText(resp) = "Error: "

\* Google granted the one outbound request of a /callback or /token request
Granted(r, o) ==
    /\ Routed(r, "/callback") \/ Routed(r, "/token")
    /\ Len(o) = 1
    /\ o[1].answer.kind = "json"
    /\ "error" \notin DOMAIN o[1].answer.tokens

(* C13: 'refresh_token' appears or gets another value only in a /callback   *)
(* or /token step whose answer from Google carries a refresh_token, and     *)
(* then holds that value; a granted exchange or refresh whose answer has    *)
(* none leaves the entry as it was and stores the new 'token_data'; and     *)
(* the entry disappears only in an authorized /logout step or a /token step *)
(* whose refresh Google answered with 'invalid_grant'.                      *)
C13_RefreshTokenChangesForReason ==
    [][ LET had == "refresh_token" \in DOMAIN kv
            has == "refresh_token" \in DOMAIN kv'
        IN  /\ ( has /\ ( ~had \/ kv'["refresh_token"] # kv["refresh_token"] ) )
               => /\ Serving
                  /\ Granted(req', out')
                  /\ "refresh_token" \in DOMAIN out'[1].answer.tokens
                  /\ kv'["refresh_token"].value = out'[1].answer.tokens.refresh_token
            /\ ( Serving /\ Granted(req', out') /\ "refresh_token" \notin DOMAIN out'[1].answer.tokens )
               => /\ has = had
                  /\ had => kv'["refresh_token"] = kv["refresh_token"]
                  /\ "token_data" \in DOMAIN kv'
                  /\ JSONparse(kv'["token_data"].value)
                       = [ access_token |-> out'[1].answer.tokens.access_token,
                           expires_at   |-> now + out'[1].answer.tokens.expires_in * 1000 ]
            /\ ( had /\ ~has )
               => /\ Serving
                  /\ \/ Routed(req', "/logout")
                     \/ /\ Routed(req', "/token")
                        /\ ExchangeRefused(out')
                        /\ out'[1].answer.tokens.error = "invalid_grant" ]_vars

\* a /token refresh sent with 'r1' that Google answered with 'r2': 'r2' is stored
C13_Witness ==
    /\ Path(req) = "/token"
    /\ Len(out) = 1
    /\ out[1].request.body.refresh_token = "r1"
    /\ out[1].answer.kind = "json"
    /\ "refresh_token" \in DOMAIN out[1].answer.tokens
    /\ out[1].answer.tokens.refresh_token = "r2"
    /\ "refresh_token" \in DOMAIN kv
    /\ kv["refresh_token"].value = "r2"

\* a /token refresh sent with 'r1' whose answer has no refresh token: 'r1' stays
C13_WitnessKept ==
    /\ Path(req) = "/token"
    /\ Len(out) = 1
    /\ out[1].request.body.refresh_token = "r1"
    /\ out[1].answer.kind = "json"
    /\ DOMAIN out[1].answer.tokens = { "access_token", "expires_in" }
    /\ "refresh_token" \in DOMAIN kv
    /\ kv["refresh_token"].value = "r1"
    /\ Cached.access_token = out[1].answer.tokens.access_token

\* the /callback invocations carrying state s that have sent their code exchange
Exchanging(s) ==
    { i \in DOMAIN flight :
        /\ flight[i].request.url.pathname = "/callback"
        /\ Get(flight[i].request.url.searchParams, "state") = s
        /\ flight[i].out # << >> }

(* C14: whatever the interleaving of the steps of the /callback invocations *)
(* that carry the same state value, at most one of them has passed the      *)
(* state validation and sent a code exchange to Google.                     *)
C14_StateAcceptedOnce == \A s \in UUIDs : Cardinality(Exchanging(s)) <= 1

(* C15: once a /logout invocation has completed with 'refresh_token' and    *)
(* 'token_data' absent, both stay absent from the namespace until a         *)
(* /callback invocation stores a token, whatever the steps of the /token    *)
(* invocations in flight.  (Tokens that a /callback invocation writes while *)
(* or after /logout runs are not held against the statement.)               *)
C15_LogoutFinal == loggedOut => NoTokens(kv)

=============================================================================
